---------------------------- MODULE Spec2Model ----------------------------
(***************************************************************************)
(* Run orchestration of the FDTD pipeline: simulate_predefined_gds of the  *)
(* lumerical and tidy3d adapters (helper_functions/*/simulate_device.py)   *)
(* with the helpers of helper_functions/generic/misc.py it calls.          *)
(*                                                                         *)
(* One process runs one adapter and calls simulate_predefined_gds up to    *)
(* MaxCalls times.  A call is a sequence of steps, one action each:        *)
(*   Resolve        defaults <- config.json <- parameters, validation,     *)
(*                  derived gds_file                                       *)
(*   SaveParameters injection into the module globals, write_to_json       *)
(*   CopyGds        gf.import_gds / write_gds                              *)
(*   Gate           os.path.exists(simulation_file)                        *)
(*   Prompt         one input() of the confirmation loop                   *)
(*   EngineInvoke   the call of fdtd_from_gds                              *)
(*   EngineReturn / EngineRaise / EngineInterrupt: how that call ends      *)
(*   Finish         the call is over, the caller may call again            *)
(* The filesystem is shared with the outside world (ExternalCreate).       *)
(* AnyKeySpec is the same process with one more argument, whose key is     *)
(* also a name of the adapter module.                                      *)
(*                                                                         *)
(* RingSpec is the ring-resonator script projects/FDTD_solvers/ring/       *)
(* find_FWHM.py: ReadSpectrum, FindFWHM, QFactor.  JsonSpec is             *)
(* write_to_json of misc.py followed by json.load: WriteToJson, LoadJson.  *)
(***************************************************************************)
EXTENDS Integers, Sequences, FiniteSets, TLC

(***************************************************************************)
(* Bounds of the model.                                                    *)
(***************************************************************************)
MaxCalls == 2

MaxPad == 1

(***************************************************************************)
(* Paths.  A path string is its directory components and file name         *)
(* (parts) followed by the suffixes appended to it with "+".               *)
(***************************************************************************)
Path(parts, suffix) == [parts |-> parts, suffix |-> suffix]

EmptyPath == Path(<<>>, <<>>)

\* file_name + '<suffix>'
AddSuffix(path, s) == [path EXCEPT !.suffix = Append(@, s)]

\* os.path.dirname: everything before the last separator; '' is <<>>
Dirname(path) ==
  IF Len(path.parts) = 0 THEN <<>>
  ELSE SubSeq(path.parts, 1, Len(path.parts) - 1)

\* the directories os.makedirs(d) leaves in place
Prefixes(d) == {SubSeq(d, 1, n) : n \in 1..Len(d)}

\* Python truth value of a string
Truthy(path) == path # EmptyPath

InGds      == Path(<<"gds_library", "coupler">>, <<".gds">>)
LockedGds  == Path(<<"gds_library", "locked">>, <<".gds">>)
MissingGds == Path(<<"gds_library", "missing">>, <<".gds">>)
DefaultGds == Path(<<"mmi_1x2_450_VISPIC2">>, <<".gds">>)
OtherGds   == Path(<<"runs", "other">>, <<".gds">>)

OutName     == Path(<<"out">>, <<>>)
RunsOutName == Path(<<"runs", "out">>, <<>>)
NewOutName  == Path(<<"new", "out">>, <<>>)
DefaultName == Path(<<"test_timestamp">>, <<>>)

(***************************************************************************)
(* Mappings (Python dicts) and dict.update.                                *)
(***************************************************************************)
EmptyMap == [k \in {} |-> 0]

Restrict(m, S) == [k \in S \cap DOMAIN m |-> m[k]]

\* a.update(b): every key of b overwrites a's
Update(a, b) ==
  [k \in DOMAIN a \cup DOMAIN b |-> IF k \in DOMAIN b THEN b[k] ELSE a[k]]

(***************************************************************************)
(* The inputs of a call.                                                   *)
(***************************************************************************)
Backends == {"lumerical", "tidy3d"}

OverrideKeys == {"predefined_gds", "file_name", "flag_run_simulation", "gds_file"}

FullOverride(g, n, f, d) ==
  [predefined_gds |-> g, file_name |-> n, flag_run_simulation |-> f, gds_file |-> d]

Overrides ==
  {Restrict(FullOverride(g, n, f, d), S) :
     S \in SUBSET OverrideKeys,
     g \in {InGds, LockedGds, MissingGds, EmptyPath},
     n \in {OutName, RunsOutName, NewOutName},
     f \in {0, 1},
     d \in {OtherGds}}

\* overrides of the keys no line of the function looks at before it writes:
\* wav_span in 0.01 um, resolution in cells per wavelength, file_name
UncheckedOverrides ==
  {[predefined_gds |-> InGds, file_name |-> RunsOutName, wav_span |-> 0],
   [predefined_gds |-> InGds, file_name |-> RunsOutName, wav_span |-> 3, resolution |-> 0],
   [predefined_gds |-> InGds, file_name |-> RunsOutName, wav_span |-> 3, resolution |-> 8,
    flag_run_simulation |-> 1],
   [predefined_gds |-> InGds, file_name |-> EmptyPath]}

\* the argument `parameters` of a call
CallOverrides == Overrides \cup UncheckedOverrides

\* config.json: absent, not JSON, or a JSON object
ConfigFiles ==
  {[kind |-> "absent", map |-> EmptyMap],
   [kind |-> "malformed", map |-> EmptyMap],
   [kind |-> "object", map |-> [predefined_gds |-> MissingGds, flag_run_simulation |-> 1]],
   [kind |-> "object", map |-> [predefined_gds |-> InGds, file_name |-> RunsOutName,
                                 gds_file |-> OtherGds]]}

DefaultsApart(b) ==
  IF b = "lumerical"
  THEN [wav_span |-> 2, resolution |-> 6, predefined_gds |-> DefaultGds,
        lumapi_path |-> "v251", file_name |-> DefaultName, flag_run_simulation |-> 0]
  ELSE [wav_span |-> 5, resolution |-> 6, predefined_gds |-> InGds,
        task_name |-> "test_timestamp", file_name |-> DefaultName,
        flag_run_simulation |-> 0]

Defaults(b) ==
  IF b = "lumerical"
  THEN [wav_span |-> 2, resolution |-> 6, predefined_gds |-> DefaultGds,
        lumapi_path |-> "v251", file_name |-> DefaultName, flag_run_simulation |-> 0]
  ELSE [wav_span |-> 5, resolution |-> 6, predefined_gds |-> DefaultGds,
        task_name |-> "test_timestamp", file_name |-> DefaultName,
        flag_run_simulation |-> 0]

ArtifactSuffix(b) == IF b = "lumerical" THEN "_FDTD.fsp" ELSE "_results.hdf5"

(***************************************************************************)
(* The confirmation reply: what input() returns, a string of characters.   *)
(***************************************************************************)
\* what the operator types, before the blanks around it
Words == {<<"y">>, <<"Y">>, <<"n">>, <<"N">>, <<"x">>, <<"y", "e", "s">>, <<>>}

Blanks(n) == [i \in 1..n |-> " "]

\* a word with up to MaxPad blanks on either side
Replies == {Blanks(l) \o w \o Blanks(r) : l \in 0..MaxPad, w \in Words, r \in 0..MaxPad}

RECURSIVE LStrip(_)
LStrip(s) == IF Len(s) > 0 /\ Head(s) = " " THEN LStrip(Tail(s)) ELSE s

RECURSIVE RStrip(_)
RStrip(s) ==
  IF Len(s) > 0 /\ s[Len(s)] = " " THEN RStrip(SubSeq(s, 1, Len(s) - 1)) ELSE s

\* str.strip()
Strip(s) == RStrip(LStrip(s))

LowerChar(c) == IF c = "Y" THEN "y" ELSE IF c = "N" THEN "n" ELSE c

\* str.lower()
Lower(s) == [i \in 1..Len(s) |-> LowerChar(s[i])]

ResponseRaw(r) == r

ResponseNoLower(r) == Strip(r)

\* response = input(...).strip().lower()
Response(r) == Lower(Strip(r))

NoReply == [kind |-> "none", text |-> <<>>]

NoErr == [type |-> "none", at |-> "none"]

Err(type, at) == [type |-> type, at |-> at]

VARIABLES
  backend,      \* the adapter this process runs
  config,       \* config.json in the working directory
  files,        \* the files that exist
  dirs,         \* the directories that exist besides the working directory
  globals,      \* the adapter module's globals the function body reads
  calls,        \* calls of simulate_predefined_gds started so far
  pc,           \* where the current call is
  overrides,    \* the argument `parameters` of the current call
  p,            \* the local dict p
  sidecar,      \* what this call's json.dump wrote
  written,      \* the files this call has written
  decision,     \* the branch the artifact gate took
  prompted,     \* whether this call has read a confirmation reply
  reply,        \* the last reply read (or the interrupt that replaced it)
  engineCalls,  \* invocations of fdtd_from_gds in this call
  engineArg,    \* the parameters handed to fdtd_from_gds
  engineOut,    \* how the engine invocation ended
  ret,          \* the value the call returned
  err           \* the exception the call raised

\* the state of a process calling simulate_predefined_gds
runVars == <<backend, config, files, dirs, globals, calls, pc, overrides, p, sidecar,
             written, decision, prompted, reply, engineCalls, engineArg, engineOut,
             ret, err>>

VARIABLES
  solver,       \* find_FWHM.py: the reader the script takes
  artifact,     \* the result file the script is pointed at
  rpc,          \* where the script is
  spectrum,     \* wav, T as the reader returned them
  analysis,     \* half_level_indices, FWHM, peak_wav of find_FWHM
  q,            \* Q = peak_wav/FWHM
  rerr          \* the exception that ended the script

\* the state of a run of find_FWHM.py
ringVars == <<solver, artifact, rpc, spectrum, analysis, q, rerr>>

VARIABLES
  jdoc,         \* write_to_json: the argument dict_name
  jname,        \* the argument json_name
  jpc,          \* where the call is
  jfile,        \* the JSON document json.dump wrote
  jback         \* what json.load gives back for it

\* the state of a call of write_to_json followed by a reader of the file
jsonVars == <<jdoc, jname, jpc, jfile, jback>>

vars == <<runVars, ringVars, jsonVars>>

\* os.access(path, os.R_OK) fails for these
Unreadable == {LockedGds}

\* the adapter module's globals after import, of the names the function body
\* looks up in them: the engine entry point imported at line 9
ModuleGlobals == [fdtd_from_gds |-> "function"]

\* the values the script's and the JSON writer's variables hold while they do not run
NoSpectrum == [wav |-> <<>>, exp |-> 0, T |-> <<>>]

NoAnalysis == [left |-> 0, right |-> 0, top |-> 0, fwhm |-> 0, peak |-> 0]

NoRErr == [type |-> "none", at |-> "none", reported |-> {}]

NoArtifact == [present |-> FALSE, ports |-> {}, axis |-> <<>>, table |-> <<>>]

NoQ == [kind |-> "none", num |-> 0, den |-> 0]

RingOff ==
  /\ solver = "none"
  /\ artifact = NoArtifact
  /\ rpc = "off"
  /\ spectrum = NoSpectrum
  /\ analysis = NoAnalysis
  /\ q = NoQ
  /\ rerr = NoRErr

NoJson == [t |-> "none"]

JsonOff ==
  /\ jdoc = NoJson
  /\ jname = EmptyPath
  /\ jpc = "off"
  /\ jfile = NoJson
  /\ jback = NoJson

\* the process before its first call of simulate_predefined_gds
ProcessStart ==
  /\ backend \in Backends
  /\ config \in ConfigFiles
  /\ files = {InGds, LockedGds, DefaultGds}
  /\ dirs = {<<"gds_library">>, <<"runs">>}
  /\ globals = ModuleGlobals
  /\ calls = 0
  /\ pc = "idle"
  /\ overrides = EmptyMap
  /\ p = EmptyMap
  /\ sidecar = EmptyMap
  /\ written = {}
  /\ decision = "none"
  /\ prompted = FALSE
  /\ reply = NoReply
  /\ engineCalls = 0
  /\ engineArg = EmptyMap
  /\ engineOut = "none"
  /\ ret = "none"
  /\ err = NoErr

Init == ProcessStart /\ RingOff /\ JsonOff

(***************************************************************************)
(* Resolve: lines 50-99 (lumerical), 49-96 (tidy3d).                       *)
(***************************************************************************)
MergeConfigWins(d, cfg, ov) == Update(Update(d, ov), cfg)

\* p = dict(defaults); p.update(config); p.update(parameters)
Merge(d, cfg, ov) == Update(Update(d, cfg), ov)

ValidateFilePathExistsOnly(path, fs) ==
  IF path \notin fs THEN Err("FileNotFoundError", "validate_file_path") ELSE NoErr

\* validate_file_path: os.path.exists, then os.access(R_OK)
ValidateFilePath(path, fs) ==
  IF path \notin fs THEN Err("FileNotFoundError", "validate_file_path")
  ELSE IF path \in Unreadable THEN Err("PermissionError", "validate_file_path")
  ELSE NoErr

\* if not p.get('predefined_gds'): raise ValueError; validate_file_path(...)
Validate(m, fs) ==
  IF ~Truthy(m["predefined_gds"]) THEN Err("ValueError", "predefined_gds")
  ELSE ValidateFilePath(m["predefined_gds"], fs)

\* p['gds_file'] = p['file_name'] + '.gds'
Derive(m) == Update(m, [gds_file |-> AddSuffix(m["file_name"], ".gds")])

LoadConfigIgnoresMalformed(cfg) == [err |-> NoErr, map |-> cfg.map]

\* with open("config.json") as f: config = json.load(f), and the two excepts
LoadConfig(cfg) ==
  IF cfg.kind = "malformed"
  THEN [err |-> Err("ValueError", "config.json"), map |-> EmptyMap]
  ELSE [err |-> NoErr, map |-> cfg.map]

ResetCall ==
  /\ overrides' = EmptyMap
  /\ p' = EmptyMap
  /\ err' = NoErr
  /\ sidecar' = EmptyMap
  /\ written' = {}
  /\ decision' = "none"
  /\ prompted' = FALSE
  /\ reply' = NoReply
  /\ engineCalls' = 0
  /\ engineArg' = EmptyMap
  /\ engineOut' = "none"
  /\ ret' = "none"

\* one call's resolution, its argument drawn from the set S
ResolveOf(S) ==
  /\ UNCHANGED <<ringVars, jsonVars>>
  /\ pc = "idle"
  /\ calls < MaxCalls
  /\ calls' = calls + 1
  /\ \E ov \in S :
       /\ overrides' = ov
       /\ IF LoadConfig(config).err # NoErr
          THEN /\ p' = EmptyMap
               /\ err' = LoadConfig(config).err
               /\ pc' = "raised"
          ELSE LET m == Merge(Defaults(backend), LoadConfig(config).map, ov)
                   e == Validate(m, files)
               IN  IF e # NoErr
                   THEN /\ p' = EmptyMap
                        /\ err' = e
                        /\ pc' = "raised"
                   ELSE /\ p' = Derive(m)
                        /\ err' = NoErr
                        /\ pc' = "save"
  /\ UNCHANGED <<backend, config, files, dirs, globals, sidecar, written, decision,
                 prompted, reply, engineCalls, engineArg, engineOut, ret>>

Resolve == ResolveOf(CallOverrides)

\* parameters with a key that is also a name of the adapter module
ClobberingOverrides ==
  {[predefined_gds |-> InGds, file_name |-> RunsOutName, flag_run_simulation |-> 1,
    fdtd_from_gds |-> "off"]}

ResolveAnyKey == ResolveOf(CallOverrides \cup ClobberingOverrides)

(***************************************************************************)
(* SaveParameters: lines 101-110 (lumerical), 98-107 (tidy3d), with        *)
(* write_to_json of misc.py.                                               *)
(***************************************************************************)
\* the names the function body reads back from the module globals
GlobalNames == {"file_name", "predefined_gds", "gds_file", "fdtd_from_gds"}

\* for key, value in p.items(): globals()[key] = value
Inject(g, m) == Update(g, Restrict(m, GlobalNames))

\* convert_for_json on a value that is no dict, list, array or complex
ConvertLeaf(v) == v

\* convert_for_json on a dict
ConvertForJson(m) == [k \in DOMAIN m |-> ConvertLeaf(m[k])]

\* os.makedirs(d, exist_ok=True) raises FileNotFoundError for d = ''
MakedirsFails(d) == d = <<>>

SaveParameters ==
  /\ UNCHANGED <<ringVars, jsonVars>>
  /\ pc = "save"
  /\ LET g == Inject(globals, p)
         json_name == AddSuffix(g["file_name"], ".json")
     IN  /\ globals' = g
         /\ IF MakedirsFails(Dirname(json_name))
            THEN /\ pc' = "raised"
                 /\ err' = Err("FileNotFoundError", "write_to_json")
                 /\ UNCHANGED <<files, dirs, sidecar, written>>
            ELSE /\ dirs' = dirs \cup Prefixes(Dirname(json_name))
                 /\ files' = files \cup {json_name}
                 /\ sidecar' = ConvertForJson(p)
                 /\ written' = written \cup {json_name}
                 /\ pc' = "copy"
                 /\ UNCHANGED err
  /\ UNCHANGED <<backend, config, calls, overrides, p, decision, prompted, reply,
                 engineCalls, engineArg, engineOut, ret>>

(***************************************************************************)
(* CopyGds: lines 112-119 (lumerical), 109-116 (tidy3d).  Either call of   *)
(* the try block can raise on a file that exists (fault).                  *)
(***************************************************************************)
\* the calls inside the try block that can raise
CopyFaults == {"import_gds", "write_gds"}

\* raise RuntimeError(f"GDS file processing failed: {e}")
GdsError(cause) ==
  Err("RuntimeError",
      IF cause = "import_gds" THEN "GDS file processing failed: import_gds"
      ELSE "GDS file processing failed: write_gds")

CopyGdsSwallows ==
  /\ UNCHANGED <<ringVars, jsonVars>>
  /\ pc = "copy"
  /\ \E fault \in CopyFaults \cup {"none"} :
       IF fault = "none" /\ globals["predefined_gds"] \in files
       THEN /\ files' = files \cup {globals["gds_file"]}
            /\ written' = written \cup {globals["gds_file"]}
       ELSE UNCHANGED <<files, written>>
  /\ pc' = "gate"
  /\ UNCHANGED <<backend, config, dirs, globals, calls, overrides, p, sidecar, err,
                 decision, prompted, reply, engineCalls, engineArg, engineOut, ret>>

CopyGds ==
  /\ UNCHANGED <<ringVars, jsonVars>>
  /\ pc = "copy"
  /\ \E fault \in CopyFaults \cup {"none"} :
       IF fault = "none" /\ globals["predefined_gds"] \in files
       THEN /\ files' = files \cup {globals["gds_file"]}
            /\ written' = written \cup {globals["gds_file"]}
            /\ pc' = "gate"
            /\ UNCHANGED err
       ELSE /\ pc' = "raised"
            /\ err' = GdsError(IF fault = "none" THEN "import_gds" ELSE fault)
            /\ UNCHANGED <<files, written>>
  /\ UNCHANGED <<backend, config, dirs, globals, calls, overrides, p, sidecar,
                 decision, prompted, reply, engineCalls, engineArg, engineOut, ret>>

(***************************************************************************)
(* Gate: lines 121-125 and 140-141 (lumerical), 118-122 and 137-138.       *)
(***************************************************************************)
\* simulation_file = file_name + '_FDTD.fsp' / '_results.hdf5'
SimulationFile == AddSuffix(globals["file_name"], ArtifactSuffix(backend))

ArtifactExistsInverted(path, fs) == path \notin fs

\* os.path.exists(simulation_file)
ArtifactExists(path, fs) == path \in fs

Gate ==
  /\ UNCHANGED <<ringVars, jsonVars>>
  /\ pc = "gate"
  /\ IF ArtifactExists(SimulationFile, files)
     THEN /\ pc' = "prompt"
          /\ UNCHANGED decision
     ELSE /\ pc' = "fresh"
          /\ decision' = "RUN_FRESH"
  /\ UNCHANGED <<backend, config, files, dirs, globals, calls, overrides, p, sidecar,
                 written, prompted, reply, engineCalls, engineArg, engineOut, ret, err>>

(***************************************************************************)
(* The confirmation loop: lines 125-139 (lumerical), 122-136 (tidy3d).     *)
(***************************************************************************)
PromptInterruptIgnored ==
  /\ UNCHANGED <<ringVars, jsonVars>>
  /\ pc = "prompt"
  /\ reply' = [kind |-> "interrupt", text |-> <<>>]
  /\ prompted' = TRUE
  /\ UNCHANGED <<backend, config, files, dirs, globals, calls, pc, overrides, p, sidecar,
                 written, decision, ret, engineCalls, engineArg, engineOut, err>>

Prompt ==
  /\ UNCHANGED <<ringVars, jsonVars>>
  /\ pc = "prompt"
  /\ \E r \in Replies :
       /\ reply' = [kind |-> "text", text |-> r]
       /\ prompted' = TRUE
       /\ IF Response(r) = <<"y">>
          THEN /\ decision' = "REUSE_EXISTING"
               /\ pc' = "reuse"
               /\ UNCHANGED ret
          ELSE IF Response(r) = <<"n">>
          THEN /\ decision' = "ABORTED"
               /\ pc' = "returned"
               /\ ret' = "None"
          ELSE /\ pc' = "prompt"
               /\ UNCHANGED <<decision, ret>>
  /\ UNCHANGED <<backend, config, files, dirs, globals, calls, overrides, p, sidecar,
                 written, engineCalls, engineArg, engineOut, err>>

\* except KeyboardInterrupt, raised by input()
PromptInterrupt ==
  /\ UNCHANGED <<ringVars, jsonVars>>
  /\ pc = "prompt"
  /\ reply' = [kind |-> "interrupt", text |-> <<>>]
  /\ prompted' = TRUE
  /\ decision' = "ABORTED"
  /\ pc' = "returned"
  /\ ret' = "None"
  /\ UNCHANGED <<backend, config, files, dirs, globals, calls, overrides, p, sidecar,
                 written, engineCalls, engineArg, engineOut, err>>

(***************************************************************************)
(* The engine: fdtd_from_gds(parameters=p), line 130 inside the try of the *)
(* loop and line 142 outside it (lumerical); 127 and 139 (tidy3d).         *)
(***************************************************************************)
EngineInvokeRechecks ==
  /\ UNCHANGED <<ringVars, jsonVars>>
  /\ pc \in {"fresh", "reuse"}
  /\ IF pc = "fresh" /\ ArtifactExists(SimulationFile, files)
     THEN /\ pc' = "prompt"
          /\ UNCHANGED <<engineCalls, engineArg, engineOut, err>>
     ELSE /\ engineCalls' = engineCalls + 1
          /\ engineArg' = p
          /\ engineOut' = "running"
          /\ pc' = "engine"
          /\ UNCHANGED err
  /\ UNCHANGED <<backend, config, files, dirs, globals, calls, overrides, p, sidecar,
                 written, decision, prompted, reply, ret>>

EngineInvoke ==
  /\ UNCHANGED <<ringVars, jsonVars>>
  /\ pc \in {"fresh", "reuse"}
  /\ IF globals["fdtd_from_gds"] = "function"
     THEN /\ engineCalls' = engineCalls + 1
          /\ engineArg' = p
          /\ engineOut' = "running"
          /\ pc' = "engine"
          /\ UNCHANGED err
     ELSE \* TypeError: 'str' object is not callable
          /\ err' = Err("TypeError", "fdtd_from_gds")
          /\ pc' = "raised"
          /\ UNCHANGED <<engineCalls, engineArg, engineOut>>
  /\ UNCHANGED <<backend, config, files, dirs, globals, calls, overrides, p, sidecar,
                 written, decision, prompted, reply, ret>>

\* the engine's result: the results dictionary when it ran the simulation
EngineResult(job) == IF job["flag_run_simulation"] # 0 THEN "results" ELSE "None"

\* the engine's result artifact, written when it ran the simulation
EngineWrites(job, b) ==
  IF job["flag_run_simulation"] # 0
  THEN {AddSuffix(job["file_name"], ArtifactSuffix(b))}
  ELSE {}

ReturnedNothing(results) == "None"

\* return results
Returned(results) == results

\* results = fdtd_from_gds(parameters=p); return results
EngineReturn ==
  /\ UNCHANGED <<ringVars, jsonVars>>
  /\ pc = "engine"
  /\ engineOut' = EngineResult(engineArg)
  /\ files' = files \cup EngineWrites(engineArg, backend)
  /\ written' = written \cup EngineWrites(engineArg, backend)
  /\ ret' = Returned(EngineResult(engineArg))
  /\ pc' = "returned"
  /\ UNCHANGED <<backend, config, dirs, globals, calls, overrides, p, sidecar,
                 decision, prompted, reply, engineCalls, engineArg, err>>

\* fdtd_from_gds raises (RuntimeError: simulation fails); nothing catches it
EngineRaise ==
  /\ UNCHANGED <<ringVars, jsonVars>>
  /\ pc = "engine"
  /\ engineOut' = "raised"
  /\ err' = Err("RuntimeError", "fdtd_from_gds")
  /\ pc' = "raised"
  /\ UNCHANGED <<backend, config, files, dirs, globals, calls, overrides, p, sidecar,
                 written, decision, prompted, reply, engineCalls, engineArg, ret>>

\* KeyboardInterrupt while fdtd_from_gds runs: line 130 is inside the try whose
\* except KeyboardInterrupt returns None, line 142 is not
EngineInterrupt ==
  /\ UNCHANGED <<ringVars, jsonVars>>
  /\ pc = "engine"
  /\ engineOut' = "interrupted"
  /\ IF decision = "REUSE_EXISTING"
     THEN /\ ret' = "None"
          /\ pc' = "returned"
          /\ UNCHANGED err
     ELSE /\ err' = Err("KeyboardInterrupt", "fdtd_from_gds")
          /\ pc' = "raised"
          /\ UNCHANGED ret
  /\ UNCHANGED <<backend, config, files, dirs, globals, calls, overrides, p, sidecar,
                 written, decision, prompted, reply, engineCalls, engineArg>>

(***************************************************************************)
(* The call is over: its value or exception is with the caller and its     *)
(* locals are gone.  The module globals and the filesystem stay.           *)
(***************************************************************************)
Finish ==
  /\ UNCHANGED <<ringVars, jsonVars>>
  /\ pc \in {"returned", "raised"}
  /\ pc' = "idle"
  /\ ResetCall
  /\ UNCHANGED <<backend, config, files, dirs, globals, calls>>

(***************************************************************************)
(* The outside world: another process (or an earlier run) leaves a result  *)
(* artifact in a directory that exists.                                    *)
(***************************************************************************)
ExternalCreate ==
  /\ UNCHANGED <<ringVars, jsonVars>>
  /\ \E n \in {RunsOutName, NewOutName} :
       /\ Dirname(n) \in dirs
       /\ AddSuffix(n, ArtifactSuffix(backend)) \notin files
       /\ files' = files \cup {AddSuffix(n, ArtifactSuffix(backend))}
  /\ UNCHANGED <<backend, config, dirs, globals, calls, pc, overrides, p, sidecar,
                 written, decision, prompted, reply, engineCalls, engineArg,
                 engineOut, ret, err>>

Next ==
  \/ Resolve
  \/ SaveParameters
  \/ CopyGds
  \/ Gate
  \/ Prompt
  \/ PromptInterrupt
  \/ EngineInvoke
  \/ EngineReturn
  \/ EngineRaise
  \/ EngineInterrupt
  \/ Finish
  \/ ExternalCreate

Spec == Init /\ [][Next]_vars

\* the same process when the parameters may hold any key
AnyKeyNext ==
  \/ ResolveAnyKey
  \/ SaveParameters
  \/ CopyGds
  \/ Gate
  \/ Prompt
  \/ PromptInterrupt
  \/ EngineInvoke
  \/ EngineReturn
  \/ EngineRaise
  \/ EngineInterrupt
  \/ Finish
  \/ ExternalCreate

AnyKeySpec == Init /\ [][AnyKeyNext]_vars

(***************************************************************************)
(* The script projects/FDTD_solvers/ring/find_FWHM.py (lines 94-109): read *)
(* the spectrum of port o2 from a result file with the reader of the       *)
(* solver, find the half-level crossings with find_FWHM, compute Q.        *)
(*                                                                         *)
(* A length is a whole number of units 10^exp (exp = -3 for thousandths of *)
(* a micrometre).  A normalised power is the fraction num/den; 0/0 is the  *)
(* nan that 0.0/0.0 gives.  A record holds three samples whose wavelengths *)
(* are equally spaced, so that CubicSpline is the parabola through them.   *)
(***************************************************************************)
RawMax == 2

Solvers == {"lumerical", "tidy3d"}

\* the wavelengths sampled, in nm
Wavelengths == <<1525, 1550, 1575>>

\* td.C_0 in the unit that makes the frequencies of Wavelengths whole numbers
C_0 == 5956650

\* np.flip
Reverse(s) == [i \in 1..Len(s) |-> s[Len(s) + 1 - i]]

\* table[:, c]
Column(table, c) == [i \in 1..Len(table) |-> table[i][c + 1]]

SetMax(S) == CHOOSE x \in S : \A y \in S : y <= x

SetMin(S) == CHOOSE x \in S : \A y \in S : x <= y

Range(s) == {s[i] : i \in 1..Len(s)}

\* the order the engine stored the samples in
StoredWavelengths(order) == IF order = "falling" THEN Reverse(Wavelengths) ELSE Wavelengths

Levels == {<<a, b, c>> : a \in 0..RawMax, b \in 0..RawMax, c \in 0..RawMax}

PortSets == {{"o1", "o2"}, {"o1"}}

\* a .fsp file: per port the column vector lambda (in 10^-9 m) and the table T_net
LumericalArtifacts ==
  {[present |-> e, ports |-> ps,
    axis |-> [i \in 1..3 |-> <<StoredWavelengths(o)[i]>>],
    table |-> [i \in 1..3 |-> <<lv[i], 0>>]] :
     e \in BOOLEAN, ps \in PortSets, o \in {"falling", "rising"}, lv \in Levels}

\* a complex mode amplitude
Amp(a) == [re |-> 0, im |-> a]

\* an .hdf5 file: per monitor the frequencies amps.f and the amplitudes per mode
Tidy3dArtifacts ==
  {[present |-> e, ports |-> ps,
    axis |-> [i \in 1..3 |-> C_0 \div StoredWavelengths(o)[i]],
    table |-> [i \in 1..3 |-> <<Amp(lv[i]), Amp(0)>>]] :
     e \in BOOLEAN, ps \in PortSets, o \in {"falling", "rising"}, lv \in Levels}

RErr(type, at, reported) == [type |-> type, at |-> at, reported |-> reported]

ReadFailed(e) == [err |-> e, wav |-> <<>>, exp |-> 0, T |-> <<>>]

ReadOk(wav, exp, T) == [err |-> NoRErr, wav |-> wav, exp |-> exp, T |-> T]

\* T/np.max(T)
Normalise(T) == [i \in 1..Len(T) |-> [num |-> T[i], den |-> SetMax(Range(T))]]

\* read_lumerical_output; lumapi raises LumApiError for a file it cannot load
\* and for a result that is not there
ReadLumericalOutput(art) ==
  IF ~art.present THEN ReadFailed(RErr("LumApiError", "load", {}))
  ELSE IF "o2" \notin art.ports THEN ReadFailed(RErr("LumApiError", "getresult", {}))
  ELSE LET T_net == art.table
           wav == Column(art.axis, 0)
           T_TE0 == Column(T_net, 0)
       IN  ReadOk(Reverse(wav), -9 + 6, Reverse(Normalise(T_TE0)))

\* np.abs(a)**2
AbsSquared(a) == a.re * a.re + a.im * a.im

\* what sim_data[monitor] raises for a monitor that is not there
LookupErrors == {"KeyError", "DataError"}

\* read_mode_monitor_from_file
ReadModeMonitorFromFile(art, monitor, lookup) ==
  IF ~art.present
  THEN ReadFailed(RErr("FileNotFoundError", "from_file", {}))
  ELSE IF monitor \notin art.ports
  THEN IF lookup = "KeyError"
       THEN ReadFailed(RErr("KeyError", "sim_data[monitor]", art.ports))
       ELSE ReadFailed(RErr("ValueError", "Failed to read mode data", {}))
  ELSE LET coeffs == [i \in 1..Len(art.table) |->
                        [c \in 1..Len(art.table[i]) |-> AbsSquared(art.table[i][c])]]
           lambdas == [i \in 1..Len(art.axis) |-> C_0 \div art.axis[i]]
       IN  ReadOk(lambdas, -3, coeffs)

\* read_tidy3d_output
ReadTidy3dOutput(art, lookup) ==
  LET r == ReadModeMonitorFromFile(art, "o2", lookup)
  IN  IF r.err # NoRErr THEN r
      ELSE ReadOk(Reverse(r.wav), r.exp, Reverse(Normalise(Column(r.T, 0))))

RingInit ==
  /\ ProcessStart /\ backend = "lumerical" /\ config.kind = "absent"
  /\ JsonOff
  /\ solver \in Solvers
  /\ artifact \in (IF solver = "lumerical" THEN LumericalArtifacts ELSE Tidy3dArtifacts)
  /\ rpc = "start"
  /\ spectrum = NoSpectrum
  /\ analysis = NoAnalysis
  /\ q = NoQ
  /\ rerr = NoRErr

\* lines 99-102: wav, T = read_..._output(folder+file)
ReadSpectrum ==
  /\ rpc = "start"
  /\ \E lookup \in LookupErrors :
       LET r == IF solver = "lumerical" THEN ReadLumericalOutput(artifact)
                ELSE ReadTidy3dOutput(artifact, lookup)
       IN  IF r.err # NoRErr
           THEN /\ rerr' = r.err
                /\ rpc' = "failed"
                /\ UNCHANGED spectrum
           ELSE /\ spectrum' = [wav |-> r.wav, exp |-> r.exp, T |-> r.T]
                /\ rpc' = "spectrum"
                /\ UNCHANGED rerr
  /\ UNCHANGED <<solver, artifact, analysis, q>>
  /\ UNCHANGED <<runVars, jsonVars>>

(***************************************************************************)
(* find_FWHM, lines 43-91.                                                 *)
(***************************************************************************)
\* np.linspace(np.min(wav), np.max(wav), 1000)
GridPoints == 1000

\* the margins of the two scans, 0.001 and 0.005 um, in thousandths of a um
LeftMargin == 1

EdgeMargin == 5

RECURSIVE Pow10(_)
Pow10(n) == IF n <= 0 THEN 1 ELSE 10 * Pow10(n - 1)

\* a number of thousandths of a micrometre in the units 10^exp of wav
Thousandths(n, exp) == n * Pow10(-3 - exp)

StrictlyIncreasing(s) == \A i \in 1..(Len(s) - 1) : s[i] < s[i + 1]

\* CubicSpline(wav, T) raises ValueError for these
SplineRejects(wav, T) ==
  \/ ~StrictlyIncreasing(wav)
  \/ \E i \in 1..Len(T) : T[i].den = 0

\* T_interp(wav_interp[i]) for three equally spaced samples, as the fraction
\* GridValue / GridDen: the parabola through the samples at x = 2i/(GridPoints-1)
GridValue(T, i) ==
  LET N == GridPoints - 1
  IN  T[1].num * (2 * i - N) * (2 * i - 2 * N)
      - 2 * T[2].num * (2 * i) * (2 * i - 2 * N)
      + T[3].num * (2 * i) * (2 * i - N)

GridDen(T) == 2 * (GridPoints - 1) * (GridPoints - 1) * T[1].den

\* np.min(T_interp(wav_interp)) over the grid indices lo..hi
RECURSIVE GridMin(_, _, _)
GridMin(T, lo, hi) ==
  IF lo = hi THEN GridValue(T, lo)
  ELSE LET mid == (lo + hi) \div 2
           a == GridMin(T, lo, mid)
           b == GridMin(T, mid + 1, hi)
       IN  IF a <= b THEN a ELSE b

\* T_interp(wav_interp[i]) < half_level, with half_level = 0.5 + 0.5*mini
Below(T, mini, i) == 2 * GridValue(T, i) < GridDen(T) + mini

Above(T, mini, i) == 2 * GridValue(T, i) > GridDen(T) + mini

\* wav_interp[i] > np.min(wav) + m, with the grid step span/(GridPoints-1)
PastLow(span, m, i) == i * span > (GridPoints - 1) * m

\* wav_interp[i] < np.max(wav) - m
BeforeHigh(span, m, i) == i * span < (GridPoints - 1) * (span - m)

\* a Python index: -1 is the last element
Wrap(i) == IF i < 0 THEN GridPoints + i ELSE i

\* int(np.round(np.average([l, r]))): halves go to the even neighbour
PeakIndex(l, r) ==
  IF (l + r) % 2 = 0 THEN (l + r) \div 2
  ELSE IF ((l + r - 1) \div 2) % 2 = 0 THEN (l + r - 1) \div 2
  ELSE (l + r + 1) \div 2

FoundFailed(e) == [err |-> e, left |-> 0, right |-> 0, top |-> 0, fwhm |-> 0, peak |-> 0]

\* the indices at which the second loop stops: with its break, or with the
\* IndexError of wav_interp[i+1] that `and` reaches once the first test holds
RightHits(T, mini, span, m5) ==
  {i \in 0..(GridPoints - 1) :
     Below(T, mini, i)
     /\ (i + 1 > GridPoints - 1
         \/ (Above(T, mini, i + 1) /\ PastLow(span, m5, i) /\ BeforeHigh(span, m5, i)))}

\* find_FWHM(wav, T): FWHM and peak_wav are numerators over GridPoints-1
FindFWHMOf(wav, exp, T) ==
  IF SplineRejects(wav, T) THEN FoundFailed(RErr("ValueError", "CubicSpline", {}))
  ELSE
    LET lo == SetMin(Range(wav))
        span == SetMax(Range(wav)) - lo
        m1 == Thousandths(LeftMargin, exp)
        m5 == Thousandths(EdgeMargin, exp)
        mini == GridMin(T, 0, GridPoints - 1)
        firsts == {i \in 0..(GridPoints - 1) :
                     /\ Below(T, mini, i)
                     /\ Above(T, mini, Wrap(i - 1))
                     /\ PastLow(span, m1, i)
                     /\ BeforeHigh(span, m5, i)}
        seconds == RightHits(T, mini, span, m5)
        left == IF firsts = {} THEN 0 ELSE SetMin(firsts)
        stop == IF seconds = {} THEN GridPoints ELSE SetMin(seconds)
    IN  IF stop = GridPoints - 1
        THEN [err |-> RErr("IndexError", "wav_interp[ii+1]", {}), left |-> left,
              right |-> 0, top |-> GridPoints, fwhm |-> 0, peak |-> 0]
        ELSE
          LET right == IF stop = GridPoints THEN 0 ELSE stop
          IN  [err |-> NoRErr, left |-> left, right |-> right,
               top |-> IF stop = GridPoints THEN GridPoints - 1 ELSE stop + 1,
               fwhm |-> (right - left) * span,
               peak |-> (GridPoints - 1) * lo + PeakIndex(left, right) * span]

\* line 104: FWHM, peak_wav = find_FWHM(wav, T)
FindFWHM ==
  /\ rpc = "spectrum"
  /\ LET f == FindFWHMOf(spectrum.wav, spectrum.exp, spectrum.T)
     IN  /\ analysis' = [left |-> f.left, right |-> f.right, top |-> f.top,
                         fwhm |-> f.fwhm, peak |-> f.peak]
         /\ rerr' = f.err
         /\ rpc' = IF f.err = NoRErr THEN "analysed" ELSE "failed"
  /\ UNCHANGED <<solver, artifact, spectrum, q>>
  /\ UNCHANGED <<runVars, jsonVars>>

\* the division of two numpy floats: x/0.0 is inf (with a warning), no exception
Divide(num, den) ==
  IF den = 0 THEN [kind |-> "inf", num |-> num, den |-> den]
  ELSE [kind |-> "finite", num |-> num, den |-> den]

\* line 108: Q = peak_wav/FWHM
QFactor ==
  /\ rpc = "analysed"
  /\ q' = Divide(analysis.peak, analysis.fwhm)
  /\ rpc' = "done"
  /\ UNCHANGED <<solver, artifact, spectrum, analysis, rerr>>
  /\ UNCHANGED <<runVars, jsonVars>>

RingNext ==
  \/ ReadSpectrum
  \/ FindFWHM
  \/ QFactor

RingSpec == RingInit /\ [][RingNext]_vars

(***************************************************************************)
(* write_to_json (misc.py lines 51-76) on an arbitrary dictionary, and a   *)
(* reader that parses the file it wrote.  A Python value and a JSON value  *)
(* are trees tagged with their type; a float holds a whole number here.    *)
(***************************************************************************)
MaxDepth == 2

PInt(n) == [t |-> "int", n |-> n]

PFloat(n) == [t |-> "float", n |-> n]

PStr(s) == [t |-> "str", s |-> s]

PComplex(re, im) == [t |-> "complex", re |-> re, im |-> im]

PList(items) == [t |-> "list", items |-> items]

\* a numpy.ndarray
PArray(items) == [t |-> "array", items |-> items]

PDict(map) == [t |-> "dict", map |-> map]

Scalars == {PInt(1), PFloat(2), PStr("SiN"), PComplex(1, 2), PComplex(0, -1)}

Arrays ==
  {PArray(<<PComplex(1, 2), PComplex(3, 0)>>), PArray(<<PFloat(2), PFloat(5)>>),
   PArray(<<>>)}

\* the values nested at most d containers deep
RECURSIVE Values(_)
Values(d) ==
  IF d = 0 THEN Scalars
  ELSE Scalars \cup Arrays
       \cup {PList(<<x, PInt(7)>>) : x \in Values(d - 1)}
       \cup {PDict([k \in {"n_eff"} |-> x]) : x \in Values(d - 1)}

\* the dictionaries handed to write_to_json
Descriptors ==
  {PDict([k \in {"file_name", "value"} |->
            IF k = "file_name" THEN PStr("runs/out") ELSE x]) : x \in Values(MaxDepth)}

\* obj.tolist()
ToList(a) == PList(a.items)

\* {"real": obj.real, "imag": obj.imag}
RealImagDropsImag(c) ==
  PDict([k \in {"real", "imag"} |-> IF k = "real" THEN PFloat(c.re) ELSE PFloat(0)])

RealImag(c) ==
  PDict([k \in {"real", "imag"} |-> IF k = "real" THEN PFloat(c.re) ELSE PFloat(c.im)])

\* convert_for_json
RECURSIVE ConvertValue(_)
ConvertValue(obj) ==
  IF obj.t = "dict" THEN PDict([k \in DOMAIN obj.map |-> ConvertValue(obj.map[k])])
  ELSE IF obj.t = "list"
  THEN PList([i \in 1..Len(obj.items) |-> ConvertValue(obj.items[i])])
  ELSE IF obj.t = "array" THEN ToList(obj)
  ELSE IF obj.t = "complex" THEN RealImag(obj)
  ELSE obj

\* ComplexEncoder.default: what json.dump asks for a value it cannot encode
EncoderDefault(obj) ==
  IF obj.t = "complex" THEN RealImag(obj)
  ELSE IF obj.t = "array" THEN ToList(obj)
  ELSE [t |-> "TypeError"]

JNumber(n, frac) == [t |-> "number", n |-> n, frac |-> frac]

JString(s) == [t |-> "string", s |-> s]

JArray(items) == [t |-> "jarray", items |-> items]

JObject(map) == [t |-> "object", map |-> map]

\* json.dump(obj, f, cls=ComplexEncoder): the document written
RECURSIVE Dump(_)
Dump(obj) ==
  IF obj.t = "int" THEN JNumber(obj.n, FALSE)
  ELSE IF obj.t = "float" THEN JNumber(obj.n, TRUE)
  ELSE IF obj.t = "str" THEN JString(obj.s)
  ELSE IF obj.t = "list" THEN JArray([i \in 1..Len(obj.items) |-> Dump(obj.items[i])])
  ELSE IF obj.t = "dict" THEN JObject([k \in DOMAIN obj.map |-> Dump(obj.map[k])])
  ELSE IF obj.t = "TypeError" THEN obj
  ELSE Dump(EncoderDefault(obj))

\* json.load
RECURSIVE Load(_)
Load(doc) ==
  IF doc.t = "number" THEN (IF doc.frac THEN PFloat(doc.n) ELSE PInt(doc.n))
  ELSE IF doc.t = "string" THEN PStr(doc.s)
  ELSE IF doc.t = "jarray" THEN PList([i \in 1..Len(doc.items) |-> Load(doc.items[i])])
  ELSE PDict([k \in DOMAIN doc.map |-> Load(doc.map[k])])

JsonNames == {AddSuffix(RunsOutName, ".json"), AddSuffix(OutName, ".json")}

JsonInit ==
  /\ ProcessStart /\ backend = "lumerical" /\ config.kind = "absent"
  /\ RingOff
  /\ jdoc \in Descriptors
  /\ jname \in JsonNames
  /\ jpc = "start"
  /\ jfile = NoJson
  /\ jback = NoJson

\* write_to_json(dict_name, json_name)
WriteToJson ==
  /\ jpc = "start"
  /\ IF MakedirsFails(Dirname(jname))
     THEN /\ jpc' = "raised"
          /\ UNCHANGED jfile
     ELSE /\ jfile' = Dump(ConvertValue(jdoc))
          /\ jpc' = "written"
  /\ UNCHANGED <<jdoc, jname, jback>>
  /\ UNCHANGED <<runVars, ringVars>>

\* with open(json_name) as f: json.load(f)
LoadJson ==
  /\ jpc = "written"
  /\ jback' = Load(jfile)
  /\ jpc' = "parsed"
  /\ UNCHANGED <<jdoc, jname, jfile>>
  /\ UNCHANGED <<runVars, ringVars>>

JsonNext ==
  \/ WriteToJson
  \/ LoadJson

JsonSpec == JsonInit /\ [][JsonNext]_vars

(***************************************************************************)
(* Properties.                                                             *)
(***************************************************************************)
\* a reply that str.strip().lower() turns into the one letter c (upper case C)
SaysLetter(r, c, C) ==
  \E i \in 1..Len(r) :
    /\ r[i] \in {c, C}
    /\ \A j \in (1..Len(r)) \ {i} : r[j] = " "

SaysYes(r) == SaysLetter(r, "y", "Y")

SaysNo(r) == SaysLetter(r, "n", "N")

\* the call has a resolved descriptor: validation passed
Resolved == p # EmptyMap

(* C1 as stated: once resolved, every key of the overrides holds exactly   *)
(* the overriding value in the descriptor.                                 *)
C1_EveryOverrideKeyWins ==
  Resolved => \A k \in DOMAIN overrides : p[k] = overrides[k]

(* C1, amended: every key of the overrides other than the derived key      *)
(* gds_file holds exactly the overriding value in the descriptor, in the   *)
(* sidecar and in what the engine is handed; gds_file is always            *)
(* file_name + '.gds', whatever the overrides give for it.                 *)
C1_OverridesWinButDerivedKey ==
  /\ Resolved =>
       /\ \A k \in DOMAIN overrides \ {"gds_file"} : p[k] = overrides[k]
       /\ p["gds_file"] = AddSuffix(p["file_name"], ".gds")
  /\ sidecar # EmptyMap =>
       /\ \A k \in DOMAIN overrides \ {"gds_file"} : sidecar[k] = overrides[k]
       /\ sidecar["gds_file"] = AddSuffix(sidecar["file_name"], ".gds")
  /\ engineArg # EmptyMap =>
       /\ \A k \in DOMAIN overrides \ {"gds_file"} : engineArg[k] = overrides[k]
       /\ engineArg["gds_file"] = AddSuffix(engineArg["file_name"], ".gds")

\* overrides that differ from config.json on two keys and give gds_file reach the engine
C1_Witness ==
  /\ engineCalls = 1
  /\ sidecar # EmptyMap
  /\ config.kind = "object"
  /\ "gds_file" \in DOMAIN overrides
  /\ \A k \in {"predefined_gds", "flag_run_simulation"} :
       /\ k \in DOMAIN overrides
       /\ k \in DOMAIN config.map
       /\ overrides[k] # config.map[k]
       /\ engineArg[k] = overrides[k]

(* C2 as stated: with an artifact in place, REUSE_EXISTING iff the reply   *)
(* is 'y', ABORTED iff the reply is 'n' or an interrupt.                   *)
C2_LiteralReplyDecides ==
  prompted =>
    /\ (decision = "REUSE_EXISTING") <=> (reply.kind = "text" /\ reply.text = <<"y">>)
    /\ (decision = "ABORTED") <=>
         ((reply.kind = "text" /\ reply.text = <<"n">>) \/ reply.kind = "interrupt")

(* C2, amended: with an artifact in place, the call takes REUSE_EXISTING   *)
(* (engine invoked, and its result returned when it returns one) iff the   *)
(* reply, stripped of surrounding blanks and lower-cased, is 'y', and      *)
(* ABORTED (None returned, engine not invoked) iff that normalised reply   *)
(* is 'n' or an interrupt is raised during the prompt.                     *)
C2_NormalisedReplyDecides ==
  prompted =>
    /\ SimulationFile \in files
    /\ (decision = "REUSE_EXISTING") <=> (reply.kind = "text" /\ SaysYes(reply.text))
    /\ (decision = "ABORTED") <=>
         ((reply.kind = "text" /\ SaysNo(reply.text)) \/ reply.kind = "interrupt")
    /\ decision = "REUSE_EXISTING" =>
         /\ pc \in {"reuse", "engine", "returned", "raised"}
         /\ pc # "reuse" => engineCalls = 1
         /\ (pc = "returned" /\ engineOut \in {"results", "None"}) => ret = engineOut
    /\ decision = "ABORTED" => (pc = "returned" /\ ret = "None" /\ engineCalls = 0)

\* the reply 'Y ' is taken as yes and the engine's results are returned
C2_Witness ==
  /\ prompted
  /\ reply = [kind |-> "text", text |-> <<"Y", " ">>]
  /\ decision = "REUSE_EXISTING"
  /\ pc = "returned"
  /\ ret = "results"

(* C3: when no artifact exists at the expected result path the gate takes  *)
(* RUN_FRESH, which never reads a confirmation reply, and the next step of *)
(* the call is the engine invocation.                                      *)
C3_NoArtifactRunsFresh ==
  /\ [](decision = "RUN_FRESH" =>
          (~prompted /\ reply = NoReply /\ pc \in {"fresh", "engine", "returned", "raised"}))
  /\ [][(pc = "gate" /\ pc' # "gate" /\ SimulationFile \notin files)
          => (pc' = "fresh" /\ decision' = "RUN_FRESH")]_vars
  /\ [][(pc = "fresh" /\ pc' # "fresh")
          => (pc' = "engine" /\ engineCalls' = 1 /\ ~prompted')]_vars

\* the engine runs on a path that holds no artifact, no reply having been read
C3_Witness ==
  /\ pc = "engine"
  /\ decision = "RUN_FRESH"
  /\ ~prompted
  /\ SimulationFile \notin files

SidecarOf(m) == AddSuffix(m["file_name"], ".json")

GeometryOf(m) == AddSuffix(m["file_name"], ".gds")

ArtifactOf(m) == AddSuffix(m["file_name"], ArtifactSuffix(backend))

C6_InterruptLeavesNothing ==
  reply.kind = "interrupt" =>
    /\ pc = "returned"
    /\ decision = "ABORTED"
    /\ ret = "None"
    /\ engineCalls = 0
    /\ written = {}

(* C6, amended: an interrupt during the prompt returns None (ABORTED) and  *)
(* the engine is not invoked; the call has written no result artifact, but *)
(* the sidecar <file_name>.json and the geometry copy <file_name>.gds,     *)
(* both written before the gate, are left behind.                          *)
C6_InterruptLeavesSidecarAndGeometry ==
  reply.kind = "interrupt" =>
    /\ pc = "returned"
    /\ decision = "ABORTED"
    /\ ret = "None"
    /\ engineCalls = 0
    /\ engineOut = "none"
    /\ written = {SidecarOf(p), GeometryOf(p)}
    /\ written \subseteq files
    /\ ArtifactOf(p) \notin written

\* an interrupted prompt: the artifact is in place, two files were written
C6_Witness ==
  /\ reply.kind = "interrupt"
  /\ pc = "returned"
  /\ ret = "None"
  /\ Cardinality(written) = 2
  /\ ArtifactOf(p) \in files

(* C7 as stated: a reply that is neither 'y' nor 'n' keeps the call in the *)
(* loop with nothing returned and no engine invoked, and the loop is left  *)
(* only on 'y', 'n' or an interrupt.                                       *)
C7_LiteralLoop ==
  /\ [][(pc = "prompt" /\ reply'.kind = "text" /\ reply'.text \notin {<<"y">>, <<"n">>})
          => (pc' = "prompt" /\ engineCalls' = engineCalls /\ ret' = ret)]_vars
  /\ [][(pc = "prompt" /\ pc' # "prompt")
          => (reply'.kind = "interrupt" \/ reply'.text \in {<<"y">>, <<"n">>})]_vars

(* C7, amended: while an artifact exists, a reply that, stripped and       *)
(* lower-cased, is neither 'y' nor 'n' keeps the call in the loop: nothing *)
(* is returned, the engine is not invoked and the next reply is read; the  *)
(* loop is left only on the first reply that normalises to 'y' or 'n' or   *)
(* on an interrupt, and that reply alone gives the outcome.                *)
C7_NormalisedLoop ==
  /\ [](pc = "prompt" =>
          /\ decision = "none" /\ engineCalls = 0 /\ ret = "none" /\ err = NoErr
          /\ reply.kind = "text" => (~SaysYes(reply.text) /\ ~SaysNo(reply.text)))
  /\ [][(pc = "prompt" /\ reply'.kind = "text"
           /\ ~SaysYes(reply'.text) /\ ~SaysNo(reply'.text))
          => (pc' = "prompt" /\ engineCalls' = engineCalls /\ ret' = ret)]_vars
  /\ [][(pc = "prompt" /\ reply'.kind = "text" /\ SaysYes(reply'.text))
          => (pc' = "reuse" /\ decision' = "REUSE_EXISTING")]_vars
  /\ [][(pc = "prompt" /\ (reply'.kind = "interrupt"
                             \/ (reply'.kind = "text" /\ SaysNo(reply'.text))))
          => (pc' = "returned" /\ decision' = "ABORTED" /\ ret' = "None")]_vars
  /\ [][(pc = "prompt" /\ pc' # "prompt")
          => (reply'.kind = "interrupt" \/ SaysYes(reply'.text) \/ SaysNo(reply'.text))]_vars

\* the loop is still prompting after the reply 'yes'
C7_Witness ==
  /\ pc = "prompt"
  /\ prompted
  /\ reply = [kind |-> "text", text |-> <<"y", "e", "s">>]

\* the geometry path the merge of the three layers gives
MergedGds == Update(Update(Defaults(backend), config.map), overrides)["predefined_gds"]

(* C8 as stated: with a well-formed or absent config.json, a geometry path *)
(* that does not exist or is unreadable fails resolution with a            *)
(* file-not-found-kind error.                                              *)
C8_BadGeometryIsFileNotFound ==
  (pc # "idle" /\ config.kind # "malformed" /\ Truthy(MergedGds)
     /\ (MergedGds \notin files \/ MergedGds \in Unreadable)) =>
    (pc = "raised" /\ err.type = "FileNotFoundError")

(* C8, amended: with a well-formed or absent config.json, a geometry path  *)
(* that does not exist always fails resolution with FileNotFoundError; one *)
(* that exists but is unreadable always fails with PermissionError, which  *)
(* is not a file-not-found kind.  Either way nothing has been written.     *)
C8_BadGeometryFails ==
  (pc # "idle" /\ config.kind # "malformed" /\ Truthy(MergedGds)) =>
    /\ MergedGds \notin files =>
         (pc = "raised" /\ err = Err("FileNotFoundError", "validate_file_path"))
    /\ (MergedGds \in files /\ MergedGds \in Unreadable) =>
         (pc = "raised" /\ err = Err("PermissionError", "validate_file_path"))
    /\ (MergedGds \notin files \/ MergedGds \in Unreadable) =>
         (~Resolved /\ written = {} /\ engineCalls = 0 /\ ~prompted)

\* an unreadable geometry file named by the overrides, over a config that names a good one
C8_Witness ==
  /\ pc = "raised"
  /\ err.type = "PermissionError"
  /\ config.kind = "object"
  /\ "predefined_gds" \in DOMAIN config.map
  /\ config.map["predefined_gds"] = InGds
  /\ MergedGds = LockedGds

(* C9 as stated: for every job that passes validation the descriptor,      *)
(* gds_file included, is written to <file_name>.json, its directory        *)
(* existing afterwards, and that happens before the geometry is copied.    *)
C9_SidecarAlwaysWritten ==
  /\ (Resolved /\ pc # "save") =>
       /\ SidecarOf(p) \in files
       /\ SidecarOf(p) \in written
       /\ sidecar = p
       /\ "gds_file" \in DOMAIN sidecar
       /\ Dirname(SidecarOf(p)) = <<>> \/ Dirname(SidecarOf(p)) \in dirs
  /\ (Resolved /\ GeometryOf(p) \in written) => SidecarOf(p) \in written

(* C10: an absent config.json never aborts resolution: the call goes on    *)
(* with the defaults overlaid by the overrides, and fails in resolution    *)
(* only if that descriptor fails validation.  A malformed config.json      *)
(* always aborts the call with an error, before any file is written, any   *)
(* reply read or the engine invoked.                                       *)
C10_AbsentContinuesMalformedAborts ==
  /\ (pc # "idle" /\ config.kind = "absent") =>
       /\ err # Err("ValueError", "config.json")
       /\ LET d == Defaults(backend)
              gds == IF "predefined_gds" \in DOMAIN overrides
                     THEN overrides["predefined_gds"] ELSE d["predefined_gds"]
          IN  IF gds \in files \ (Unreadable \cup {EmptyPath})
              THEN /\ Resolved
                   /\ \A k \in DOMAIN d :
                        p[k] = IF k \in DOMAIN overrides THEN overrides[k] ELSE d[k]
              ELSE pc = "raised" /\ ~Resolved
  /\ (pc # "idle" /\ config.kind = "malformed") =>
       /\ pc = "raised"
       /\ err = Err("ValueError", "config.json")
       /\ ~Resolved
       /\ written = {} /\ sidecar = EmptyMap
       /\ ~prompted
       /\ engineCalls = 0

\* without config.json a call runs through to the engine on a default it did not override
C10_Witness ==
  /\ config.kind = "absent"
  /\ pc = "returned"
  /\ engineCalls = 1
  /\ "flag_run_simulation" \notin DOMAIN overrides
  /\ p["flag_run_simulation"] = 0

(* C11: when importing the source geometry or writing its copy fails, the  *)
(* call raises a RuntimeError whose message names the underlying cause;    *)
(* the copy step is left either with the copy written or with that error,  *)
(* and after the error the gate was not consulted, no reply was read and   *)
(* the engine was not invoked.                                             *)
C11_GeometryFailureIsFatal ==
  /\ [](err.type = "RuntimeError" /\ err.at # "fdtd_from_gds" =>
          /\ err \in {GdsError(c) : c \in CopyFaults}
          /\ pc = "raised"
          /\ decision = "none" /\ ~prompted /\ reply = NoReply
          /\ engineCalls = 0 /\ engineOut = "none" /\ ret = "none"
          /\ GeometryOf(p) \notin written)
  /\ [][(pc = "copy" /\ pc' = "gate") => GeometryOf(p) \in written']_vars
  /\ [][(pc = "copy" /\ pc' \notin {"copy", "gate"})
          => (pc' = "raised" /\ err' \in {GdsError(c) : c \in CopyFaults})]_vars
  /\ [][(pc = "gate" /\ pc' # "gate") => GeometryOf(p) \in written]_vars

\* write_gds failed after the sidecar was written
C11_Witness ==
  /\ pc = "raised"
  /\ err = GdsError("write_gds")
  /\ SidecarOf(p) \in written
  /\ engineCalls = 0

\* the data-model invariant of a job descriptor
DescriptorInvariant(m, fs) ==
  /\ m["predefined_gds"] \in fs \ Unreadable
  /\ Truthy(m["file_name"])
  /\ m["wav_span"] > 0
  /\ m["resolution"] >= 1

(* C12 as stated: every descriptor that reaches the sidecar write, the     *)
(* geometry copy or the engine names an existing readable geometry file,   *)
(* has a non-empty output base name, a wavelength span > 0 and a           *)
(* resolution >= 1.                                                        *)
C12_DescriptorInvariantHolds ==
  /\ Resolved => DescriptorInvariant(p, files)
  /\ sidecar # EmptyMap => DescriptorInvariant(sidecar, files)
  /\ engineArg # EmptyMap => DescriptorInvariant(engineArg, files)

(* C13 as stated: the analysis never yields a result with FWHM <= 0, and   *)
(* Q is never computed by dividing by a non-positive FWHM: a curve with no *)
(* crossing inside the margins, or with the right crossing not to the      *)
(* right of the left one, ends in an error instead.                        *)
C13_NoDegenerateResonance ==
  /\ rpc \in {"analysed", "done"} =>
       /\ analysis.fwhm > 0
       /\ analysis.left < analysis.right
  /\ rpc = "done" => (q.kind = "finite" /\ q.den > 0)

\* the wavelength (in nm) and the power of the raw sample j of the result file
RawWavelength(j) ==
  IF solver = "lumerical" THEN artifact.axis[j][1] ELSE C_0 \div artifact.axis[j]

RawPower(j) ==
  IF solver = "lumerical" THEN artifact.table[j][1]
  ELSE artifact.table[j][1].re * artifact.table[j][1].re
       + artifact.table[j][1].im * artifact.table[j][1].im

(* C14 as stated: for both raw formats and every raw record, the returned  *)
(* wavelengths are strictly ascending, the returned powers have maximum    *)
(* exactly 1, the two sequences have the same length and every returned    *)
(* pair comes from one raw sample.                                         *)
C14_CanonicalSpectrum ==
  spectrum # NoSpectrum =>
    /\ \A i \in 1..(Len(spectrum.wav) - 1) : spectrum.wav[i] < spectrum.wav[i + 1]
    /\ \A i \in 1..Len(spectrum.T) :
         spectrum.T[i].den > 0 /\ spectrum.T[i].num <= spectrum.T[i].den
    /\ \E i \in 1..Len(spectrum.T) : spectrum.T[i].num = spectrum.T[i].den
    /\ Len(spectrum.wav) = Len(spectrum.T)
    /\ \A k \in 1..Len(spectrum.wav) :
         \E j \in 1..Len(artifact.axis) :
           /\ spectrum.wav[k] = RawWavelength(j)
           /\ spectrum.T[k].num = RawPower(j)

(* C15 as stated: in both reader paths a missing result file ends in a     *)
(* file-not-found error, and a port or monitor that is not in the file     *)
(* ends in a monitor-not-found error (the lookup's KeyError) that reports  *)
(* the identifiers the file does hold; neither becomes another error.      *)
C15_ReaderErrorsDistinguishable ==
  (rpc = "failed" /\ spectrum = NoSpectrum) =>
    /\ ~artifact.present =>
         (rerr.type = "FileNotFoundError" /\ rerr.reported = {})
    /\ (artifact.present /\ "o2" \notin artifact.ports) =>
         (rerr.type = "KeyError" /\ rerr.reported = artifact.ports)

\* the value json.load gives back holds, position by position, what the value
\* written held: {real, imag} for a complex, a list for an array or a list
RECURSIVE RoundTrips(_, _)
RoundTrips(orig, back) ==
  IF orig.t = "complex"
  THEN /\ back.t = "dict"
       /\ DOMAIN back.map = {"real", "imag"}
       /\ back.map["real"] = PFloat(orig.re)
       /\ back.map["imag"] = PFloat(orig.im)
  ELSE IF orig.t \in {"list", "array"}
  THEN /\ back.t = "list"
       /\ Len(back.items) = Len(orig.items)
       /\ \A i \in 1..Len(orig.items) : RoundTrips(orig.items[i], back.items[i])
  ELSE IF orig.t = "dict"
  THEN /\ back.t = "dict"
       /\ DOMAIN back.map = DOMAIN orig.map
       /\ \A k \in DOMAIN orig.map : RoundTrips(orig.map[k], back.map[k])
  ELSE back = orig

\* a complex value somewhere inside an array inside v
RECURSIVE HoldsComplexArray(_)
HoldsComplexArray(v) ==
  IF v.t = "array" THEN \E i \in 1..Len(v.items) : v.items[i].t = "complex"
  ELSE IF v.t = "list" THEN \E i \in 1..Len(v.items) : HoldsComplexArray(v.items[i])
  ELSE IF v.t = "dict" THEN \E k \in DOMAIN v.map : HoldsComplexArray(v.map[k])
  ELSE FALSE

(* C16: for every dictionary holding complex values, directly or inside    *)
(* nested dicts, lists or arrays, the file write_to_json writes parses     *)
(* back to a value that has, at the place of each complex value, an object *)
(* {real, imag} with the parts of that value, and every other value as it  *)
(* was (an array as the list of its elements).                             *)
C16_ComplexRoundTrip ==
  /\ jpc \in {"written", "parsed"} => jfile.t = "object"
  /\ jpc = "parsed" => RoundTrips(jdoc, jback)

\* a complex array inside a nested dict has been written and parsed back
C16_Witness ==
  /\ jpc = "parsed"
  /\ jdoc.map["value"].t = "dict"
  /\ HoldsComplexArray(jdoc)
  /\ jback.map["value"].map["n_eff"].items[1].map["imag"] = PFloat(2)

(* C17 as stated: a call's behaviour is determined by its own overrides,   *)
(* config.json, the filesystem and the replies alone: once the call has    *)
(* injected its descriptor, every name its body looks up holds what this   *)
(* call's descriptor gives, or else what the module defines, and the       *)
(* engine entry point fails to be callable only by this call's own         *)
(* parameters.                                                             *)
C17_CallsIndependent ==
  /\ (Resolved /\ pc # "save") =>
       globals = Update(ModuleGlobals, Restrict(p, GlobalNames))
  /\ err.type = "TypeError" => "fdtd_from_gds" \in DOMAIN p

\* find_FWHM got past CubicSpline: its two loops have run
Scanned ==
  \/ rpc \in {"analysed", "done"}
  \/ rpc = "failed" /\ spectrum # NoSpectrum /\ rerr.type # "ValueError"

\* the grid indices at which the curve goes from below the half level back
\* above it, between 0.5% and 99.5% of the span
StatedCrossings ==
  LET mini == GridMin(spectrum.T, 0, GridPoints - 1)
  IN  {i \in 0..(GridPoints - 2) :
         /\ Below(spectrum.T, mini, i)
         /\ Above(spectrum.T, mini, i + 1)
         /\ 1000 * i > 5 * (GridPoints - 1)
         /\ 1000 * i < 995 * (GridPoints - 1)}

(* C18 as stated: the right crossing find_FWHM records is the first grid   *)
(* index, left to right, at which the interpolant goes from below the      *)
(* half level back above it inside the margin that leaves out the first    *)
(* and the last 0.5% of the span, and the scan reads no grid index outside *)
(* 0..999.                                                                 *)
C18_RightCrossing ==
  Scanned =>
    /\ analysis.top <= GridPoints - 1
    /\ rerr.type # "IndexError"
    /\ analysis.right = IF StatedCrossings = {} THEN 0 ELSE SetMin(StatedCrossings)

\* the adapter this process does not run
OtherBackend == CHOOSE b \in Backends : b # backend

\* the keys of the descriptor the orchestration itself reads
OrchestrationKeys == {"predefined_gds", "file_name", "gds_file"}

\* the order of the steps of a call
Steps ==
  {<<"idle", "save">>, <<"idle", "raised">>, <<"save", "copy">>, <<"save", "raised">>,
   <<"copy", "gate">>, <<"copy", "raised">>, <<"gate", "prompt">>, <<"gate", "fresh">>,
   <<"prompt", "reuse">>, <<"prompt", "returned">>, <<"fresh", "engine">>,
   <<"reuse", "engine">>, <<"engine", "returned">>, <<"engine", "raised">>,
   <<"returned", "idle">>, <<"raised", "idle">>}

C20_CheckThenActNotAtomic ==
  /\ [][(pc = "fresh" /\ SimulationFile \in files /\ pc' # pc) =>
          /\ pc' = "engine"
          /\ engineArg' = p
          /\ engineCalls' = engineCalls + 1
          /\ decision' = "RUN_FRESH"
          /\ ~prompted']_vars
  /\ []((pc = "engine" /\ decision = "RUN_FRESH") =>
          /\ ~prompted
          /\ AddSuffix(engineArg["file_name"], ArtifactSuffix(backend)) = SimulationFile)
  /\ [][(pc = "engine" /\ decision = "RUN_FRESH" /\ pc' = "returned"
          /\ p["flag_run_simulation"] # 0) =>
          (SimulationFile \in written' /\ ~prompted')]_vars

\* the engine has been called on a path where the artifact appeared after the gate
C20_Witness ==
  /\ pc = "engine"
  /\ decision = "RUN_FRESH"
  /\ ~prompted
  /\ p["flag_run_simulation"] # 0
  /\ SimulationFile \in files
  /\ SimulationFile \notin written

=============================================================================
